---------------------------- MODULE Spec2Model ----------------------------
(***************************************************************************)
(* PLATiNA::ARCHIVE client: the screenshot analyzer (src/analyzer.py), its *)
(* data classes (src/models.py) and the archive reconciliation of the      *)
(* client window (src/client.py).                                          *)
(*                                                                         *)
(* Number representation.  Python floats that carry a fixed number of      *)
(* decimals are integers here: a judge rate (accuracy, round(..., 4)) is   *)
(* counted in units of 0.0001, a P.A.T.C.H. value (round(..., 2)) in units *)
(* of 0.01.  Python's round() is round-half-to-even; it is computed here   *)
(* on the exact quotient.                                                  *)
(*                                                                         *)
(* A perceptual hash is the set of its one-bits, so that the Hamming       *)
(* distance (imagehash's "-") is the size of the symmetric difference.     *)
(* Python's None is the empty tuple, a present value x the tuple <<x>>.    *)
(***************************************************************************)
EXTENDS Integers, Sequences, FiniteSets, TLC

VARIABLES
    fn,        \* pure-function harness: the function under evaluation
    args,      \* pure-function harness: its arguments
    ret,       \* pure-function harness: the values returned so far
    song_db,   \* ScreenshotAnalyzer.song_db: the catalog, in dict order
    archive,   \* PlatinaArchiveClient.archive: None or the dict key -> DecodeResult
    sent,      \* the bodies handed to requests.post(update_archive), in order
    pc,        \* position of the analysis flow
    img,       \* the image under analysis (what the recognisers read off it)
    matched,   \* (matched_song, match_distance) once get_best_match_song ran
    report,    \* the AnalysisReport handed to update_display
    last,      \* what the last finished analysis did
    runs,      \* analyses started so far
    analyzer,  \* PlatinaArchiveClient.analyzer: None or the ScreenshotAnalyzer
    flows,     \* per thread: its position in run_analysis / _execute_analysis
    after      \* the reports scheduled with app.after(0, update_display, report)

harness == <<fn, args, ret>>
client  == <<song_db, archive, sent, pc, img, matched, report, last, runs>>
threads == <<analyzer, flows, after>>
vars    == <<fn, args, ret, song_db, archive, sent, pc, img, matched, report, last, runs,
             analyzer, flows, after>>

None    == <<>>
Some(x) == <<x>>

---------------------------------------------------------------------------
(* Bounds of the model *)

\* number of bits of a perceptual hash (64 in imagehash.phash)
HashBits == 6
\* songs in a catalog
MaxSongs == 2
\* largest value OCR returns for a note count or the note total
MaxNotes == 3
\* accuracies tried on each side of a rank threshold, in units of 0.0001
RankDelta == 2
\* analyses per run of the client
MaxRuns == 2

---------------------------------------------------------------------------
(* Arithmetic helpers *)

\* round-half-to-even of n / d, d # 0 (Python's round on the exact quotient)
RoundHalfEvenPos(n, d) ==
    LET q == n \div d
        r == n % d
    IN  IF 2 * r < d THEN q
        ELSE IF 2 * r > d THEN q + 1
        ELSE IF q % 2 = 0 THEN q ELSE q + 1

RoundHalfEven(n, d) ==
    IF d > 0 THEN RoundHalfEvenPos(n, d) ELSE RoundHalfEvenPos(0 - n, 0 - d)

Abs(x) == IF x < 0 THEN 0 - x ELSE x

RECURSIVE SumSeq(_)
SumSeq(s) == IF s = <<>> THEN 0 ELSE Head(s) + SumSeq(Tail(s))

---------------------------------------------------------------------------
(* Scoring engine: ScreenshotAnalyzer's static arithmetic (src/analyzer.py) *)

\* round(total_judge / total_notes, 4), in units of 0.0001
JudgeScale == 10000
\* round(patch_base, 2), in units of 0.01
PatchScale == 100

\* the rank ladder of calculate_rank, lowest first, and F, which no accuracy yields
RankOrder == <<"C", "B", "A", "A+", "AA", "AA+", "S", "S+", "SS", "SS+">>
Ranks     == {RankOrder[i] : i \in 1..Len(RankOrder)}
RankIndex(rank) == CHOOSE i \in 1..Len(RankOrder) : RankOrder[i] = rank

\* calculate_judge_rate: ZeroDivisionError when the five counts sum to 0
calculate_judge_rate_raises(ph, p, g, d, m) == ph + p + g + d + m = 0

\* a judge rate cut off after the fourth decimal instead of rounded
calculate_judge_rate_truncates(ph, p, g, d, m) ==
    LET total_judge == (ph + p) * 100 + g * 70 + d * 30
        total_notes == ph + p + g + d + m
    IN  (total_judge * JudgeScale) \div total_notes

calculate_judge_rate(ph, p, g, d, m) ==
    LET total_judge == (ph + p) * 100 + g * 70 + d * 30
        total_notes == ph + p + g + d + m
    IN  RoundHalfEven(total_judge * JudgeScale, total_notes)

calculate_score(perfect_high, perfect, great) ==
    200 * perfect_high + 150 * perfect + 100 * great

calculate_rank_lenient(judge_rate) ==
    IF judge_rate > 998000 THEN "SS+"
    ELSE IF judge_rate > 995000 THEN "SS"
    ELSE IF judge_rate > 990000 THEN "S+"
    ELSE IF judge_rate > 980000 THEN "S"
    ELSE IF judge_rate > 970000 THEN "AA+"
    ELSE IF judge_rate > 950000 THEN "AA"
    ELSE IF judge_rate > 900000 THEN "A+"
    ELSE IF judge_rate > 800000 THEN "A"
    ELSE IF judge_rate > 700000 THEN "B"
    ELSE "C"

calculate_rank(judge_rate) ==
    IF judge_rate >= 998000 THEN "SS+"
    ELSE IF judge_rate >= 995000 THEN "SS"
    ELSE IF judge_rate >= 990000 THEN "S+"
    ELSE IF judge_rate >= 980000 THEN "S"
    ELSE IF judge_rate >= 970000 THEN "AA+"
    ELSE IF judge_rate >= 950000 THEN "AA"
    ELSE IF judge_rate >= 900000 THEN "A+"
    ELSE IF judge_rate >= 800000 THEN "A"
    ELSE IF judge_rate >= 700000 THEN "B"
    ELSE "C"

\* rank_ratio of calculate_patch, in percent
rank_ratio ==
    [r \in Ranks |->
        CASE r = "C"   -> 20  [] r = "B"   -> 30  [] r = "A"  -> 40
          [] r = "A+"  -> 50  [] r = "AA"  -> 60  [] r = "AA+" -> 70
          [] r = "S"   -> 80  [] r = "S+"  -> 90  [] r = "SS" -> 95
          [] r = "SS+" -> 100]

\* round-half-to-even of a * b / 10^8 for a >= 0, b >= 0, without leaving 32 bits:
\* b = q * 10^8 + r1 * 10^4 + r0 and a * r1 = u * 10^4 + v give
\* a * b / 10^8 = a * q + u + (v * 10^4 + a * r0) / 10^8
MulDivRound(a, b) ==
    LET q  == b \div 100000000
        r  == b % 100000000
        r1 == r \div 10000
        r0 == r % 10000
        u  == (a * r1) \div 10000
        v  == (a * r1) % 10000
    IN  a * q + u + RoundHalfEven(v * 10000 + a * r0, 100000000)

\* level * 42 * (judge / 100) * rank_ratio[rank], times 1.02 for PLUS, round 2
patch_formula(level, rank, is_plus, judge) ==
    LET a == level * 42 * (IF is_plus THEN 102 ELSE 100)
        b == Abs(judge) * rank_ratio[rank]
        m == MulDivRound(Abs(a), b)
    IN  IF (a < 0) # (judge < 0) THEN 0 - m ELSE m

calculate_patch_no_F(level, rank, is_plus, judge) ==
    patch_formula(level, IF rank = "F" THEN "C" ELSE rank, is_plus, judge)

calculate_patch(level, rank, is_plus, judge) ==
    IF rank = "F" THEN 0
    ELSE patch_formula(level, rank, is_plus, judge)

\* a repair that hands the OCR'd counts back as they are
verify_notes_count_no_repair(total, perfect_high, perfect, great, good, miss) ==
    <<perfect_high, perfect, great, good, miss>>

\* a repair that always recomputes the miss tier
verify_notes_count_miss_only(total, perfect_high, perfect, great, good, miss) ==
    IF total = perfect_high + perfect + great + good + miss
    THEN <<perfect_high, perfect, great, good, miss>>
    ELSE <<perfect_high, perfect, great, good,
           total - (perfect_high + perfect + great + good)>>

\* a repair whose first branch leaves the miss tier out of the sum
verify_notes_count_forgets_miss(total, perfect_high, perfect, great, good, miss) ==
    IF total = perfect_high + perfect + great + good + miss
    THEN <<perfect_high, perfect, great, good, miss>>
    ELSE IF perfect_high > total
    THEN <<total - (perfect + great + good), perfect, great, good, miss>>
    ELSE IF perfect > total
    THEN <<perfect_high, total - (perfect_high + great + good + miss), great, good, miss>>
    ELSE IF great > total
    THEN <<perfect_high, perfect, total - (perfect_high + perfect + good + miss), good, miss>>
    ELSE IF good > total
    THEN <<perfect_high, perfect, great, total - (perfect_high + perfect + great + miss), miss>>
    ELSE <<perfect_high, perfect, great, good,
           total - (perfect_high + perfect + great + good)>>

verify_notes_count(total, perfect_high, perfect, great, good, miss) ==
    IF total = perfect_high + perfect + great + good + miss
    THEN <<perfect_high, perfect, great, good, miss>>
    ELSE IF perfect_high > total
    THEN <<total - (perfect + great + good + miss), perfect, great, good, miss>>
    ELSE IF perfect > total
    THEN <<perfect_high, total - (perfect_high + great + good + miss), great, good, miss>>
    ELSE IF great > total
    THEN <<perfect_high, perfect, total - (perfect_high + perfect + good + miss), good, miss>>
    ELSE IF good > total
    THEN <<perfect_high, perfect, great, total - (perfect_high + perfect + great + miss), miss>>
    ELSE <<perfect_high, perfect, great, good,
           total - (perfect_high + perfect + great + good)>>

---------------------------------------------------------------------------
(* Catalog and song matcher (src/models.py Song, src/analyzer.py) *)

Lines        == {4, 6}
Difficulties == {"EASY", "HARD", "OVER", "PLUS"}

\* Pattern and Song of src/models.py; phash and plus_phash are str | None
Pattern(line, difficulty, level) ==
    [line |-> line, difficulty |-> difficulty, level |-> level]

Song(song_id, phash, plus_phash, patterns) ==
    [id |-> song_id, phash |-> phash, plus_phash |-> plus_phash, patterns |-> patterns]

\* Song.get_available_levels: the levels of the patterns of (line, difficulty),
\* in pattern order
RECURSIVE get_available_levels_of(_, _, _)
get_available_levels_of(patterns, line, difficulty) ==
    IF patterns = <<>> THEN <<>>
    ELSE LET pattern == Head(patterns)
             rest    == get_available_levels_of(Tail(patterns), line, difficulty)
         IN  IF pattern.line = line /\ pattern.difficulty = difficulty
             THEN <<pattern.level>> \o rest
             ELSE rest

get_available_levels(song, line, difficulty) ==
    get_available_levels_of(song.patterns, line, difficulty)

InSeq(x, s) == \E i \in 1..Len(s) : s[i] = x

\* A Python dict is the sequence of its (key, value) pairs in insertion order:
\* d[k] = v on a present key replaces the value and keeps the key's position
DictHas(d, k) == \E i \in 1..Len(d) : d[i][1] = k
DictGet(d, k) == d[CHOOSE i \in 1..Len(d) : d[i][1] = k][2]
DictPut(d, k, v) ==
    IF DictHas(d, k)
    THEN [i \in 1..Len(d) |-> IF d[i][1] = k THEN <<k, v>> ELSE d[i]]
    ELSE Append(d, <<k, v>>)

\* ScreenshotAnalyzer.__init__: {song.id: song for song in song_database}
RECURSIVE build_song_db(_, _)
build_song_db(song_database, acc) ==
    IF song_database = <<>> THEN acc
    ELSE build_song_db(Tail(song_database),
                       DictPut(acc, Head(song_database).id, Head(song_database)))

\* _build_jacket_hash_map: for song in song_db.values(), phash then plus_phash
RECURSIVE build_jacket_hash_map(_, _)
build_jacket_hash_map(db, hash_map) ==
    IF db = <<>> THEN hash_map
    ELSE LET song == Head(db)[2]
             m1   == IF song.phash # None
                     THEN DictPut(hash_map, song.phash[1], song) ELSE hash_map
             m2   == IF song.plus_phash # None
                     THEN DictPut(m1, song.plus_phash[1], song) ELSE m1
         IN  build_jacket_hash_map(Tail(db), m2)

\* the analyzer built from a list of songs: (song_db, jacket_hash_map)
ScreenshotAnalyzer(song_database) ==
    LET db == build_song_db(song_database, <<>>)
    IN  [song_db |-> db, jacket_hash_map |-> build_jacket_hash_map(db, <<>>)]

\* imagehash: target_hash - ref_hash, the number of differing bits
Hamming(a, b) == Cardinality((a \ b) \cup (b \ a))

\* float("inf"): above every distance of two 64-bit hashes
Inf == 65

\* the scan of get_best_match_song taking the last of the minima (<=)
RECURSIVE best_match_scan_last(_, _, _, _)
best_match_scan_last(hash_map, target_hash, min_distance, best_match_song) ==
    IF hash_map = <<>> THEN <<best_match_song, min_distance>>
    ELSE LET distance == Hamming(target_hash, Head(hash_map)[1])
         IN  IF distance <= min_distance
             THEN best_match_scan_last(Tail(hash_map), target_hash,
                                       distance, Some(Head(hash_map)[2]))
             ELSE best_match_scan_last(Tail(hash_map), target_hash,
                                       min_distance, best_match_song)

\* the loop of get_best_match_song over jacket_hash_map.items()
RECURSIVE best_match_scan(_, _, _, _)
best_match_scan(hash_map, target_hash, min_distance, best_match_song) ==
    IF hash_map = <<>> THEN <<best_match_song, min_distance>>
    ELSE LET distance == Hamming(target_hash, Head(hash_map)[1])
         IN  IF distance < min_distance
             THEN best_match_scan(Tail(hash_map), target_hash,
                                  distance, Some(Head(hash_map)[2]))
             ELSE best_match_scan(Tail(hash_map), target_hash,
                                  min_distance, best_match_song)

\* get_best_match_song keeping the last of several minima
get_best_match_song_last(jacket_hash_map, target_hash) ==
    best_match_scan_last(jacket_hash_map, target_hash, Inf, None)

\* returns (best_match_song or None, min_distance)
get_best_match_song(jacket_hash_map, target_hash) ==
    best_match_scan(jacket_hash_map, target_hash, Inf, None)

---------------------------------------------------------------------------
(* The analysis pipeline: extract_info and _analyze_select_screen          *)
(* (src/analyzer.py).  An image is what the recognisers read off it:       *)
(*   grabbed       FALSE when ImageGrab.grabclipboard() returned None      *)
(*   small         the image is narrower than 1034 or lower than 727 px    *)
(*   screen        the answer of determine_screen_type                     *)
(*   jacket_hash   imagehash.phash of the jacket crop                      *)
(*   line          get_ocr_line                                            *)
(*   difficulty    RESULT: get_difficulty (UNKNOWN included)               *)
(*   pivot         SELECT: None, or the difficulty the pivot scan found    *)
(*   level_ocr     get_ocr_integer on the level crop                       *)
(*   level_phash   SELECT: read_selected_level_by_phash on the level crop  *)
(*   rank_is_F     the rank glyph is within 5 bits of the F hash           *)
(*   patch_ocr     RESULT: get_ocr_patch, in units of 0.01                 *)
(*   tenth_apart_within  RESULT: whether the float subtraction             *)
(*                 patch_ocr - calculated_patch lands in [-0.1, 0.1] when   *)
(*                 the two decimals are exactly 0.1 apart                  *)
(*   total_notes, perfect_high, perfect, great, good, miss   RESULT        *)
(*   score, major_patch, minor_patch, major_judge, minor_judge   SELECT    *)
(*   full_combo_glyph, max_patch_pixel   SELECT                            *)
(* minor_patch stays below 100 and minor_judge below 10000, the digits the *)
(* game prints.                                                            *)

\* the literal 5 of "if match_distance > 5" (and PHASH_THRESHOLD)
PHASH_THRESHOLD == 5

\* AnalysisReport of src/models.py (the jacket image itself is left out)
AnalysisReport(song, score, judge, patch, line, difficulty, level, match_distance, rank, is_full_combo, is_perfect_decode, is_maximum_patch, total_notes, perfect_high) ==
    [song |-> song, score |-> score, judge |-> judge, patch |-> patch,
     line |-> line, difficulty |-> difficulty, level |-> level,
     match_distance |-> match_distance, rank |-> rank,
     is_full_combo |-> is_full_combo, is_perfect_decode |-> is_perfect_decode,
     is_maximum_patch |-> is_maximum_patch,
     total_notes |-> total_notes, perfect_high |-> perfect_high]

Returned(r) == [outcome |-> "report", report |-> Some(r)]
Raised(e)   == [outcome |-> e, report |-> None]

\* "if match_distance > 5: raise ArchiveException" accepting one bit less
jacket_rejected_at_threshold(match_distance) == match_distance >= PHASH_THRESHOLD

\* extract_info: if match_distance > 5: raise ArchiveException
result_jacket_rejected(match_distance) == match_distance > PHASH_THRESHOLD

\* _analyze_select_screen: if match_distance > 5: raise ArchiveException
select_jacket_rejected(match_distance) == match_distance > PHASH_THRESHOLD

\* -0.1 <= patch_ocr - calculated_patch <= 0.1
patch_within_tenth(im, calculated_patch) ==
    LET d == Abs(im.patch_ocr - calculated_patch)
    IN  IF d = 10 THEN im.tenth_apart_within ELSE d < 10

\* a level taken from OCR whatever the catalog lists
catalog_level_or_keeps_ocr(available_levels, level_ocr) == level_ocr

\* extract_info: level_int = level_ocr;
\* if len(available_levels) == 1: level_int = available_levels[0]
catalog_level_or(available_levels, level_ocr) ==
    IF Len(available_levels) = 1 THEN available_levels[1] ELSE level_ocr

\* extract_info from "2. OCR Extraction" on, the song being matched
analyze_result_screen(matched_song, match_distance, im) ==
    LET counts == verify_notes_count(im.total_notes, im.perfect_high, im.perfect,
                                     im.great, im.good, im.miss)
        perfect_high == counts[1]
        miss == counts[5]
        difficulty_str == im.difficulty
        is_plus_difficulty == difficulty_str = "PLUS"
        calculated_judge_rate ==
            calculate_judge_rate(counts[1], counts[2], counts[3], counts[4], counts[5])
        calculated_score == calculate_score(counts[1], counts[2], counts[3])
        calculated_rank ==
            IF im.rank_is_F THEN "F" ELSE calculate_rank(calculated_judge_rate)
        formula_patch == calculate_patch(im.level_ocr, calculated_rank,
                                         is_plus_difficulty, calculated_judge_rate)
        available_levels == get_available_levels(matched_song, im.line, difficulty_str)
        level_int == catalog_level_or(available_levels, im.level_ocr)
        is_full_combo == miss = 0
        is_perfect_decode == calculated_judge_rate = 100 * JudgeScale
        is_maximum_patch ==
            is_perfect_decode /\ perfect_high * 100 >= 98 * im.total_notes
        calculated_patch ==
            IF is_perfect_decode \/ patch_within_tenth(im, formula_patch)
            THEN im.patch_ocr ELSE formula_patch
    IN  IF calculate_judge_rate_raises(counts[1], counts[2], counts[3], counts[4], counts[5])
        THEN Raised("ZeroDivisionError")
        ELSE Returned(AnalysisReport(matched_song, calculated_score,
                 calculated_judge_rate, calculated_patch, im.line, difficulty_str,
                 level_int, match_distance, calculated_rank, is_full_combo,
                 is_perfect_decode, is_maximum_patch, im.total_notes, perfect_high))

\* _analyze_select_screen from "2. Extract Lines" on, the song being matched
analyze_select_screen(matched_song, match_distance, im) ==
    LET line  == im.line
        score == im.score
        patch == im.major_patch * PatchScale + im.minor_patch
        judge == im.major_judge * JudgeScale + im.minor_judge
        pivot_found == im.pivot # None
        difficulty == im.pivot[1]
        available_levels == get_available_levels(matched_song, line, difficulty)
        level1 == IF Len(available_levels) = 1 THEN available_levels[1]
                  ELSE im.level_ocr
        level  == IF InSeq(level1, available_levels) THEN level1 ELSE im.level_phash
        is_perfect_decode == judge = 100 * JudgeScale
        is_full_combo == im.full_combo_glyph \/ is_perfect_decode
        is_max_patch == im.max_patch_pixel
        rank == IF im.rank_is_F THEN "F" ELSE calculate_rank(judge)
    IN  IF im.small THEN Raised("IndexError")
        ELSE IF ~pivot_found THEN Raised("UnboundLocalError")
        ELSE Returned(AnalysisReport(matched_song, score, judge, patch, line,
                 difficulty, level, match_distance, rank, is_full_combo,
                 is_perfect_decode, is_max_patch, 0, 0))

---------------------------------------------------------------------------
(* The archive and its reconciliation (src/client.py, src/models.py)       *)

\* DecodeResult of src/models.py under its key; decoded_at counts analyses
DecodeResult(song_id, line, difficulty, level, judge, score, patch, decoded_at, is_full_combo, is_max_patch) ==
    [song_id |-> song_id, line |-> line, difficulty |-> difficulty, level |-> level,
     judge |-> judge, score |-> score, patch |-> patch, decoded_at |-> decoded_at,
     is_full_combo |-> is_full_combo, is_max_patch |-> is_max_patch]

\* f"{song.id}|{line}|{difficulty}|{level}"
archive_key(song_id, line, difficulty, level) == <<song_id, line, difficulty, level>>

\* a request body that never reports a full combo
json_drops_full_combo(r) ==
    [song_id |-> r.song.id, line |-> r.line, difficulty |-> r.difficulty,
     level |-> r.level, judge |-> r.judge, score |-> r.score, patch |-> r.patch,
     is_full_combo |-> FALSE, is_max_patch |-> r.is_maximum_patch]

\* AnalysisReport.json
json(r) ==
    [song_id |-> r.song.id, line |-> r.line, difficulty |-> r.difficulty,
     level |-> r.level, judge |-> r.judge, score |-> r.score, patch |-> r.patch,
     is_full_combo |-> r.is_full_combo, is_max_patch |-> r.is_maximum_patch]

\* a lookup whose placeholder already counts as a full combo
existing_archive_of_combo_placeholder(dict, r, utc_now) ==
    LET key == archive_key(r.song.id, r.line, r.difficulty, r.level)
    IN  IF DictHas(dict, key) THEN DictGet(dict, key)
        ELSE DecodeResult(r.song.id, r.line, r.difficulty, r.level,
                          0, 0, 0, utc_now, TRUE, FALSE)

\* self.archive.get(archive_key, DecodeResult(..., 0.0, 0, 0.0, utc_now, False, False))
existing_archive_of(dict, r, utc_now) ==
    LET key == archive_key(r.song.id, r.line, r.difficulty, r.level)
    IN  IF DictHas(dict, key) THEN DictGet(dict, key)
        ELSE DecodeResult(r.song.id, r.line, r.difficulty, r.level,
                          0, 0, 0, utc_now, FALSE, FALSE)

\* a comparison without the full-combo criterion
is_better_ignores_combo(r, existing_archive) ==
    \/ r.judge > existing_archive.judge
    \/ /\ r.judge = existing_archive.judge
       /\ r.score > existing_archive.score

\* a comparison that lets an equal score win
is_better_or_equal_score(r, existing_archive) ==
    \/ r.judge > existing_archive.judge
    \/ /\ r.judge = existing_archive.judge
       /\ r.score >= existing_archive.score

\* the if/elif ladder of update_display that ends in log_higher_score_and_report
is_better(r, existing_archive) ==
    IF r.judge > existing_archive.judge THEN TRUE
    ELSE IF r.judge = existing_archive.judge
    THEN IF r.score > existing_archive.score THEN TRUE
         ELSE IF r.score = existing_archive.score
         THEN r.is_full_combo /\ ~existing_archive.is_full_combo
         ELSE FALSE
    ELSE FALSE

\* an update that leaves the stored full-combo flag alone
updated_archive_keeps_combo(dict, r, now) ==
    LET key == archive_key(r.song.id, r.line, r.difficulty, r.level)
        internal_archive == existing_archive_of(dict, r, now)
    IN  DictPut(dict, key,
                [internal_archive EXCEPT !.judge = r.judge, !.score = r.score,
                                         !.patch = r.patch, !.decoded_at = now,
                                         !.is_max_patch = r.is_maximum_patch])

\* "update internal archive" of log_higher_score_and_report
updated_archive(dict, r, now) ==
    LET key == archive_key(r.song.id, r.line, r.difficulty, r.level)
        internal_archive == existing_archive_of(dict, r, now)
    IN  DictPut(dict, key,
                [internal_archive EXCEPT !.judge = r.judge, !.score = r.score,
                                         !.patch = r.patch, !.decoded_at = now,
                                         !.is_full_combo = r.is_full_combo,
                                         !.is_max_patch = r.is_maximum_patch])

---------------------------------------------------------------------------
(* The client: one analysis flow at a time.  A hotkey analysis runs        *)
(* extract_info on a worker thread and hands the report to update_display   *)
(* on the main thread (app.after); the button runs the same two in a row on *)
(* the main thread.                                                        *)

\* the patterns of the catalog songs: song 1 has one 4L EASY level, two 6L HARD
\* levels and no PLUS pattern
Patterns1 == <<Pattern(4, "EASY", 5), Pattern(6, "HARD", 15), Pattern(6, "HARD", 19)>>
Patterns2 == <<Pattern(4, "EASY", 7)>>

\* two songs twelve bits apart (song 2 has a plus jacket one bit from its normal
\* one); a catalog whose only song has no jacket hash
CatalogTwoSongs == <<Song(1, Some({}), None, Patterns1),
                     Song(2, Some(1..12), Some(1..11), Patterns2)>>
CatalogNoHash   == <<Song(1, None, None, Patterns1)>>
ClientCatalogs  == {CatalogTwoSongs, CatalogNoHash}

\* what fetch_archive may deliver: nothing yet, or one record of song 1
StoredRecord ==
    DecodeResult(1, 4, "EASY", 5, 980000, 900000, 16464, 0, FALSE, FALSE)
InitialArchives ==
    {<<>>, <<<<archive_key(1, 4, "EASY", 5), StoredRecord>>>>}

\* a select screen of song 1, 4L EASY, 98.0000 %, 900000 points, no full combo
SelectImage ==
    [grabbed |-> TRUE, small |-> FALSE, screen |-> "SELECT", jacket_hash |-> {},
     line |-> 4, difficulty |-> "UNKNOWN", pivot |-> Some("EASY"),
     level_ocr |-> 5, level_phash |-> 0, rank_is_F |-> FALSE,
     patch_ocr |-> 0, tenth_apart_within |-> FALSE,
     total_notes |-> 0, perfect_high |-> 0, perfect |-> 0, great |-> 0,
     good |-> 0, miss |-> 0,
     score |-> 900000, major_patch |-> 164, minor_patch |-> 64,
     major_judge |-> 98, minor_judge |-> 0,
     full_combo_glyph |-> FALSE, max_patch_pixel |-> FALSE]

\* a result screen of song 1, 6L HARD level 15, two notes, both top-tier-high
ResultImage ==
    [grabbed |-> TRUE, small |-> FALSE, screen |-> "RESULT", jacket_hash |-> {},
     line |-> 6, difficulty |-> "HARD", pivot |-> None,
     level_ocr |-> 15, level_phash |-> 0, rank_is_F |-> FALSE,
     patch_ocr |-> 63000, tenth_apart_within |-> FALSE,
     total_notes |-> 2, perfect_high |-> 2, perfect |-> 0, great |-> 0,
     good |-> 0, miss |-> 0,
     score |-> 0, major_patch |-> 0, minor_patch |-> 0,
     major_judge |-> 0, minor_judge |-> 0,
     full_combo_glyph |-> FALSE, max_patch_pixel |-> FALSE]

\* the select screen with every accuracy, score and full-combo glyph tried
SelectScores ==
    {[SelectImage EXCEPT !.major_judge = j[1], !.minor_judge = j[2],
                         !.score = sc, !.full_combo_glyph = fc] :
        j \in {<<0, 0>>, <<98, 0>>, <<98, 5000>>},
        sc \in {0, 900000}, fc \in BOOLEAN}

\* the result screen with the note tallies tried: (total, ph, p, great, good, miss)
ResultTallies ==
    {[ResultImage EXCEPT !.total_notes = t[1], !.perfect_high = t[2],
                         !.perfect = t[3], !.great = t[4], !.good = t[5],
                         !.miss = t[6]] :
        t \in {<<2, 2, 0, 0, 0, 0>>, <<2, 1, 1, 0, 0, 0>>, <<2, 1, 0, 0, 0, 1>>,
               <<2, 1, 0, 0, 1, 0>>, <<0, 0, 0, 0, 0, 0>>, <<2, 1, 1, 1, 0, 0>>}}

\* jackets 4, 5 and 6 bits from the hash of song 1 on both screens (the base
\* images are 0 bits from it), and the jacket of song 2
JacketVariants ==
    {[im EXCEPT !.jacket_hash = 1..k] :
        im \in {SelectImage, ResultImage},
        k \in {PHASH_THRESHOLD - 1, PHASH_THRESHOLD, PHASH_THRESHOLD + 1}}
        \cup {[SelectImage EXCEPT !.jacket_hash = 1..12, !.level_ocr = 7]}

\* an empty clipboard, a small image, a select screen without pivot, an F rank,
\* an OCR'd level the catalog does not list
OtherImages ==
    {[SelectImage EXCEPT !.grabbed = FALSE],
     [SelectImage EXCEPT !.small = TRUE],
     [SelectImage EXCEPT !.pivot = None],
     [ResultImage EXCEPT !.rank_is_F = TRUE],
     [ResultImage EXCEPT !.level_ocr = 16]}

\* the result screen at 50 % (one top-tier-high, one miss; rank C, formula
\* rating 63.00 at level 15) and at 65 % (one top-tier-high, one low; rank C,
\* formula rating 81.90) with on-screen ratings near the formula's.  In Python
\* 63.1 - 63.0 = 0.10000000000000142 (outside [-0.1, 0.1]) and
\* 82.0 - 81.9 = 0.09999999999999432 (inside).
RatingImages ==
    {[ResultImage EXCEPT !.perfect_high = 1, !.miss = 1, !.patch_ocr = 6310,
                         !.tenth_apart_within = FALSE],
     [ResultImage EXCEPT !.perfect_high = 1, !.miss = 1, !.patch_ocr = 6305],
     [ResultImage EXCEPT !.perfect_high = 1, !.miss = 1, !.patch_ocr = 6311],
     [ResultImage EXCEPT !.perfect_high = 1, !.good = 1, !.patch_ocr = 8200,
                         !.tenth_apart_within = TRUE]}

\* screens on which OCR reads a level the catalog does not list for 4L EASY
\* (song 1 has the one level 5 there), a select screen at 100 % without the
\* full-combo glyph, and a result screen whose total (1) is below the sum of
\* the tallies (one mid, one low)
LevelAndComboImages ==
    {[ResultImage EXCEPT !.line = 4, !.difficulty = "EASY", !.level_ocr = 6,
                         !.perfect_high = 1, !.miss = 1, !.patch_ocr = 0],
     [SelectImage EXCEPT !.level_ocr = 6],
     [SelectImage EXCEPT !.major_judge = 100, !.minor_judge = 0],
     [ResultImage EXCEPT !.total_notes = 1, !.perfect_high = 0, !.great = 1,
                         !.good = 1]}

ClientImages ==
    SelectScores \cup ResultTallies \cup JacketVariants \cup OtherImages
        \cup RatingImages \cup LevelAndComboImages

AtRest(outcome) == [outcome |-> outcome, report |-> None, existing |-> None]

\* no thread besides the one flow
ThreadsAtRest ==
    /\ analyzer = None
    /\ flows = <<>>
    /\ after = <<>>

Init ==
    /\ ThreadsAtRest
    /\ fn = "none" /\ args = <<>> /\ ret = <<>>
    /\ song_db \in {ScreenshotAnalyzer(c).song_db : c \in ClientCatalogs}
    /\ archive \in {None} \cup {Some(a) : a \in InitialArchives}
    /\ sent = <<>>
    /\ pc = "idle"
    /\ img = None
    /\ matched = None
    /\ report = None
    /\ last = None
    /\ runs = 0

\* _handle_successful_register: self.archive = fetch_archive(self.api_key)
HandleSuccessfulRegister ==
    /\ archive = None
    /\ \E a \in InitialArchives : archive' = Some(a)
    /\ UNCHANGED <<song_db, sent, pc, img, matched, report, last, runs>>
    /\ UNCHANGED <<harness, threads>>

\* load_db between two analyses: self.analyzer = ScreenshotAnalyzer(song_data)
LoadDb ==
    /\ pc = "idle"
    /\ \E c \in ClientCatalogs :
          /\ ScreenshotAnalyzer(c).song_db # song_db
          /\ song_db' = ScreenshotAnalyzer(c).song_db
    /\ UNCHANGED <<archive, sent, pc, img, matched, report, last, runs>>
    /\ UNCHANGED <<harness, threads>>

\* run_analysis / _execute_analysis enter extract_info: the image is taken from
\* the clipboard and classified; without an image AnalysisReport(song_name=...)
\* raises TypeError
StartAnalysis ==
    /\ pc = "idle"
    /\ runs < MaxRuns
    /\ runs' = runs + 1
    /\ \E im \in ClientImages :
          IF im.grabbed
          THEN /\ img' = Some(im)
               /\ pc' = "match"
               /\ last' = last
          ELSE /\ img' = None
               /\ pc' = "idle"
               /\ last' = Some(AtRest("TypeError"))
    /\ matched' = None
    /\ report' = None
    /\ UNCHANGED <<song_db, archive, sent>>
    /\ UNCHANGED <<harness, threads>>

\* the jacket of the image against the catalog
BestMatch ==
    get_best_match_song(build_jacket_hash_map(song_db, <<>>), img[1].jacket_hash)

\* extract_info, "1. jacket and Song Match": ArchiveException (log_error) or on
MatchSongResult ==
    /\ pc = "match"
    /\ img[1].screen = "RESULT"
    /\ IF result_jacket_rejected(BestMatch[2])
       THEN /\ pc' = "idle"
            /\ img' = None
            /\ matched' = None
            /\ last' = Some(AtRest("ArchiveException"))
       ELSE /\ pc' = "recognize"
            /\ matched' = Some(BestMatch)
            /\ UNCHANGED <<img, last>>
    /\ UNCHANGED <<song_db, archive, sent, report, runs>>
    /\ UNCHANGED <<harness, threads>>

\* _analyze_select_screen, "1. Get Base Data": ArchiveException (log_error) or on
MatchSongSelect ==
    /\ pc = "match"
    /\ img[1].screen = "SELECT"
    /\ IF select_jacket_rejected(BestMatch[2])
       THEN /\ pc' = "idle"
            /\ img' = None
            /\ matched' = None
            /\ last' = Some(AtRest("ArchiveException"))
       ELSE /\ pc' = "recognize"
            /\ matched' = Some(BestMatch)
            /\ UNCHANGED <<img, last>>
    /\ UNCHANGED <<song_db, archive, sent, report, runs>>
    /\ UNCHANGED <<harness, threads>>

\* the rest of extract_info / _analyze_select_screen: the fields are recognised
\* and scored; a report is handed to update_display, or the analysis dies of an
\* exception that is no ArchiveException
Recognize ==
    /\ pc = "recognize"
    /\ LET im  == img[1]
           res == IF im.screen = "SELECT"
                  THEN analyze_select_screen(matched[1][1][1], matched[1][2], im)
                  ELSE analyze_result_screen(matched[1][1][1], matched[1][2], im)
       IN  IF res.outcome = "report"
           THEN /\ pc' = "display"
                /\ report' = res.report
                /\ last' = last
           ELSE /\ pc' = "idle"
                /\ report' = None
                /\ last' = Some(AtRest(res.outcome))
    /\ img' = None
    /\ matched' = None
    /\ UNCHANGED <<song_db, archive, sent, runs>>
    /\ UNCHANGED <<harness, threads>>

\* update_display with log_higher_score_and_report: without an archive
\* self.archive.get raises AttributeError; a better report is posted and, when
\* requests.post returned, stored; requests.post may raise
UpdateDisplay ==
    /\ pc = "display"
    /\ pc' = "idle"
    /\ report' = None
    /\ IF archive = None
       THEN /\ last' = Some([outcome |-> "AttributeError", report |-> report,
                             existing |-> None])
            /\ UNCHANGED <<archive, sent>>
       ELSE LET r == report[1]
                existing_archive == existing_archive_of(archive[1], r, runs)
            IN  IF is_better(r, existing_archive)
                THEN /\ sent' = Append(sent, json(r))
                     /\ \/ /\ archive' = Some(updated_archive(archive[1], r, runs))
                           /\ last' = Some([outcome |-> "updated", report |-> report,
                                            existing |-> Some(existing_archive)])
                        \/ /\ archive' = archive
                           /\ last' = Some([outcome |-> "post_raised", report |-> report,
                                            existing |-> Some(existing_archive)])
                ELSE /\ last' = Some([outcome |-> "not_updated", report |-> report,
                                      existing |-> Some(existing_archive)])
                     /\ UNCHANGED <<archive, sent>>
    /\ UNCHANGED <<song_db, img, matched, runs>>
    /\ UNCHANGED <<harness, threads>>

Next ==
    \/ HandleSuccessfulRegister
    \/ LoadDb
    \/ StartAnalysis
    \/ MatchSongResult
    \/ MatchSongSelect
    \/ Recognize
    \/ UpdateDisplay

Spec == Init /\ [][Next]_vars

---------------------------------------------------------------------------
(* The client's threads.  The hotkey listener is started in __init__ before *)
(* the analyzer and the archive exist and calls run_analysis_thread for     *)
(* every hotkey: each call starts a new daemon thread that runs            *)
(* _execute_analysis.  The main thread runs __init__, then the event loop:  *)
(* the buttons (run_analysis, load_db), the registration callback and the   *)
(* callbacks scheduled with app.after.  The variables of the one-flow       *)
(* client above rest, except archive, sent and runs.                        *)

\* the thread of root.mainloop(); the worker threads are numbered in the order
\* of their hotkeys
MainThread == 0
Workers    == 1..MaxRuns
Threads    == {MainThread} \cup Workers

\* the images on the clipboard: the select screen and the result screen of song 1
ThreadImages == {SelectImage, ResultImage}

\* a thread outside run_analysis / _execute_analysis / update_display
NoFlow(at) ==
    [pc |-> at, img |-> None, analyzer |-> None, matched |-> None, report |-> None,
     err |-> "none"]

\* the call of thread t returned or raised err: a worker thread is over, the
\* main thread is back in the event loop
Ended(t, err) ==
    [NoFlow(IF t = MainThread THEN "mainloop" ELSE "ended") EXCEPT !.err = err]

\* an extract_info that looks self.analyzer up again at every use
extract_info_rereads(own, current) == current

\* the analyzer whose maps extract_info reads: self, the object that
\* self.analyzer was bound to when the call was made, whatever self.analyzer
\* is bound to by now
extract_info_self(own, current) == own

\* an _execute_analysis that calls update_display itself
update_display_on_caller(t) == t

\* the thread that runs update_display for the report of thread t: the caller
\* in run_analysis; for _execute_analysis the main thread, through app.after
update_display_thread(t) == MainThread

\* the state after self.hotkey_listener.start() (client.py:50)
InitThreads ==
    /\ fn = "none" /\ args = <<>> /\ ret = <<>>
    /\ song_db = <<>>
    /\ archive = None
    /\ sent = <<>>
    /\ pc = "idle"
    /\ img = None
    /\ matched = None
    /\ report = None
    /\ last = None
    /\ runs = 0
    /\ analyzer = None
    /\ flows = [t \in Threads |-> NoFlow(IF t = MainThread THEN "init" ELSE "none")]
    /\ after = <<>>

\* __init__, the widgets and the api key: with a key self.archive =
\* fetch_archive(self.api_key), without one the registration window is opened
\* and self.archive stays None
fetch_archive_or_register ==
    /\ flows[MainThread].pc = "init"
    /\ archive' \in {None} \cup {Some(a) : a \in InitialArchives}
    /\ flows' = [flows EXCEPT ![MainThread].pc = "load_db"]
    /\ UNCHANGED <<harness, song_db, sent, pc, img, matched, report, last, runs,
                   analyzer, after>>

\* the callback of the registration window
handle_successful_register ==
    /\ flows[MainThread].pc = "mainloop"
    /\ archive = None
    /\ \E a \in InitialArchives : archive' = Some(a)
    /\ UNCHANGED <<harness, song_db, sent, pc, img, matched, report, last, runs,
                   threads>>

\* load_db, at the end of __init__ and behind "Reload song DB": a new
\* ScreenshotAnalyzer is built and bound to self.analyzer
load_db ==
    /\ flows[MainThread].pc \in {"load_db", "mainloop"}
    /\ \E c \in ClientCatalogs :
          /\ analyzer # Some(ScreenshotAnalyzer(c))
          /\ analyzer' = Some(ScreenshotAnalyzer(c))
    /\ flows' = [flows EXCEPT ![MainThread].pc = "mainloop"]
    /\ UNCHANGED <<harness, client, after>>

\* a hotkey: thread = threading.Thread(target=self._execute_analysis); start()
run_analysis_thread ==
    /\ runs < MaxRuns
    /\ runs' = runs + 1
    /\ flows' = [flows EXCEPT ![runs + 1] = NoFlow("triggered")]
    /\ UNCHANGED <<harness, song_db, archive, sent, pc, img, matched, report, last,
                   analyzer, after>>

\* the button: run_analysis on the main thread
run_analysis ==
    /\ flows[MainThread].pc = "mainloop"
    /\ runs < MaxRuns
    /\ runs' = runs + 1
    /\ flows' = [flows EXCEPT ![MainThread] = NoFlow("triggered")]
    /\ UNCHANGED <<harness, song_db, archive, sent, pc, img, matched, report, last,
                   analyzer, after>>

\* report = self.analyzer.extract_info(): self.analyzer is read (None, or not
\* yet an attribute: AttributeError), then extract_info grabs the image
execute_analysis(t) ==
    /\ flows[t].pc = "triggered"
    /\ IF analyzer = None
       THEN flows' = [flows EXCEPT ![t] = Ended(t, "AttributeError")]
       ELSE \E im \in ThreadImages :
               flows' = [flows EXCEPT ![t] = [NoFlow("match") EXCEPT
                                                 !.img = Some(im),
                                                 !.analyzer = analyzer]]
    /\ UNCHANGED <<harness, client, analyzer, after>>

\* extract_info / _analyze_select_screen: the jacket against self.jacket_hash_map
match_song(t) ==
    /\ flows[t].pc = "match"
    /\ LET im   == flows[t].img[1]
           self == extract_info_self(flows[t].analyzer[1], analyzer[1])
           best == get_best_match_song(self.jacket_hash_map, im.jacket_hash)
           rejected == IF im.screen = "SELECT"
                       THEN select_jacket_rejected(best[2])
                       ELSE result_jacket_rejected(best[2])
       IN  IF rejected
           THEN flows' = [flows EXCEPT ![t] = Ended(t, "ArchiveException")]
           ELSE flows' = [flows EXCEPT ![t].pc = "recognize",
                                       ![t].matched = Some(best)]
    /\ UNCHANGED <<harness, client, analyzer, after>>

\* the rest of extract_info, then the hand-over of the report: run_analysis
\* calls update_display, _execute_analysis schedules it with app.after
recognize(t) ==
    /\ flows[t].pc = "recognize"
    /\ LET im  == flows[t].img[1]
           m   == flows[t].matched[1]
           res == IF im.screen = "SELECT"
                  THEN analyze_select_screen(m[1][1], m[2], im)
                  ELSE analyze_result_screen(m[1][1], m[2], im)
       IN  IF res.outcome # "report"
           THEN /\ flows' = [flows EXCEPT ![t] = Ended(t, res.outcome)]
                /\ after' = after
           ELSE IF update_display_thread(t) = t
           THEN /\ flows' = [flows EXCEPT ![t] = [NoFlow("display") EXCEPT
                                                     !.report = res.report]]
                /\ after' = after
           ELSE /\ flows' = [flows EXCEPT ![t] = Ended(t, "none")]
                /\ after' = Append(after, res.report)
    /\ UNCHANGED <<harness, client, analyzer>>

\* the event loop runs the callback scheduled first
mainloop_after ==
    /\ flows[MainThread].pc = "mainloop"
    /\ after # <<>>
    /\ flows' = [flows EXCEPT ![MainThread] = [NoFlow("display") EXCEPT
                                                  !.report = Head(after)]]
    /\ after' = Tail(after)
    /\ UNCHANGED <<harness, client, analyzer>>

\* update_display up to requests.post in log_higher_score_and_report
update_display(t) ==
    /\ flows[t].pc = "display"
    /\ IF archive = None
       THEN /\ flows' = [flows EXCEPT ![t] = Ended(t, "AttributeError")]
            /\ sent' = sent
       ELSE LET r == flows[t].report[1]
                existing_archive == existing_archive_of(archive[1], r, runs)
            IN  IF is_better(r, existing_archive)
                THEN /\ sent' = Append(sent, json(r))
                     /\ flows' = [flows EXCEPT ![t].pc = "post"]
                ELSE /\ flows' = [flows EXCEPT ![t] = Ended(t, "none")]
                     /\ sent' = sent
    /\ UNCHANGED <<harness, song_db, archive, pc, img, matched, report, last, runs,
                   analyzer, after>>

\* requests.post returns and the record is written, or it raises
log_higher_score_and_report(t) ==
    /\ flows[t].pc = "post"
    /\ \/ /\ archive' = Some(updated_archive(archive[1], flows[t].report[1], runs))
          /\ flows' = [flows EXCEPT ![t] = Ended(t, "none")]
       \/ /\ archive' = archive
          /\ flows' = [flows EXCEPT ![t] = Ended(t, "ConnectionError")]
    /\ UNCHANGED <<harness, song_db, sent, pc, img, matched, report, last, runs,
                   analyzer, after>>

NextThreads ==
    \/ fetch_archive_or_register
    \/ handle_successful_register
    \/ load_db
    \/ run_analysis_thread
    \/ run_analysis
    \/ \E t \in Threads : execute_analysis(t)
    \/ \E t \in Threads : match_song(t)
    \/ \E t \in Threads : recognize(t)
    \/ mainloop_after
    \/ \E t \in Threads : update_display(t)
    \/ \E t \in Threads : log_higher_score_and_report(t)

SpecThreads == InitThreads /\ [][NextThreads]_vars

---------------------------------------------------------------------------
(* Pure-function harness: Init draws the arguments, the action applies the *)
(* function.  The client's variables rest.                                 *)

ClientAtRest ==
    /\ ThreadsAtRest
    /\ song_db = <<>>
    /\ archive = None
    /\ sent = <<>>
    /\ pc = "idle"
    /\ img = None
    /\ matched = None
    /\ report = None
    /\ last = None
    /\ runs = 0

\* the accuracies at which calculate_rank changes its answer
RankThresholds ==
    {998000, 995000, 990000, 980000, 970000, 950000, 900000, 800000, 700000}

\* accuracies around every threshold, the ends of the scale, and values that
\* a bad note repair can produce (below 0, above 100)
RankInputs ==
    {t + d : t \in RankThresholds, d \in (0 - RankDelta)..RankDelta}
        \cup {0 - 500000, 0, 1, 350000, 999999, 1000000, 1300000}

InitRank ==
    /\ fn = "calculate_rank"
    /\ args \in RankInputs \X RankInputs
    /\ ret = <<>>
    /\ ClientAtRest

CallCalculateRank ==
    /\ fn = "calculate_rank"
    /\ ret = <<>>
    /\ ret' = <<calculate_rank(args[1]), calculate_rank(args[2])>>
    /\ UNCHANGED <<fn, args>>
    /\ UNCHANGED <<client, threads>>

NextRank == CallCalculateRank
SpecRank == InitRank /\ [][NextRank]_vars

PatchLevels == {0, 1, 5, 15, 21, 30}

InitPatch ==
    /\ fn = "calculate_patch"
    /\ args \in [level : PatchLevels, rank : Ranks \cup {"F"},
                 is_plus : BOOLEAN, judge : RankInputs]
    /\ ret = <<>>
    /\ ClientAtRest

CallCalculatePatch ==
    /\ fn = "calculate_patch"
    /\ ret = <<>>
    /\ ret' = <<calculate_patch(args.level, args.rank, args.is_plus, args.judge)>>
    /\ UNCHANGED <<fn, args>>
    /\ UNCHANGED <<client, threads>>

NextPatch == CallCalculatePatch
SpecPatch == InitPatch /\ [][NextPatch]_vars

NoteCounts == 0..MaxNotes

InitNotes ==
    /\ fn = "verify_notes_count"
    /\ args \in NoteCounts \X NoteCounts \X NoteCounts \X NoteCounts
                 \X NoteCounts \X NoteCounts
    /\ ret = <<>>
    /\ ClientAtRest

\* verify_notes_count(total, perfect_high, perfect, great, good, miss)
CallVerifyNotesCount ==
    /\ fn = "verify_notes_count"
    /\ ret = <<>>
    /\ ret' = <<verify_notes_count(args[1], args[2], args[3], args[4], args[5], args[6])>>
    /\ UNCHANGED <<fn, args>>
    /\ UNCHANGED <<client, threads>>

\* verify_notes_count applied to its own output, with the same total
CallVerifyNotesCountAgain ==
    /\ fn = "verify_notes_count"
    /\ Len(ret) = 1
    /\ ret' = Append(ret, verify_notes_count(args[1], ret[1][1], ret[1][2],
                                             ret[1][3], ret[1][4], ret[1][5]))
    /\ UNCHANGED <<fn, args>>
    /\ UNCHANGED <<client, threads>>

NextNotes == CallVerifyNotesCount \/ CallVerifyNotesCountAgain
SpecNotes == InitNotes /\ [][NextNotes]_vars

\* the jacket hashes of the catalogs tried: two hashes two bits apart and the
\* all-ones hash
CatalogHashes == {{}, {1, 2}, 1..HashBits}
HashOptions   == {None} \cup {Some(h) : h \in CatalogHashes}

\* the patterns every song of the harness catalogs carries
HarnessPatterns == <<Pattern(4, "EASY", 5)>>

\* catalogs as fetch_songs returns them: the ids are distinct
CatalogsOfLen(n) ==
    {[i \in 1..n |-> Song(i, hs[i][1], hs[i][2], HarnessPatterns)] :
        hs \in [1..n -> HashOptions \X HashOptions]}
Catalogs == UNION {CatalogsOfLen(n) : n \in 0..MaxSongs}

InitMatch ==
    /\ fn = "get_best_match_song"
    /\ args \in [song_database : Catalogs, target_hash : SUBSET (1..HashBits)]
    /\ ret = <<>>
    /\ ClientAtRest

\* ScreenshotAnalyzer(song_database).get_best_match_song(target_hash)
CallGetBestMatchSong ==
    /\ fn = "get_best_match_song"
    /\ ret = <<>>
    /\ ret' = <<get_best_match_song(ScreenshotAnalyzer(args.song_database).jacket_hash_map,
                                    args.target_hash)>>
    /\ UNCHANGED <<fn, args>>
    /\ UNCHANGED <<client, threads>>

NextMatch == CallGetBestMatchSong
SpecMatch == InitMatch /\ [][NextMatch]_vars

\* five tallies up to MaxNotes each, and the hundred top-tier-high notes of a
\* perfect play
JudgeInputs ==
    (NoteCounts \X NoteCounts \X NoteCounts \X NoteCounts \X NoteCounts)
        \cup {<<100, 0, 0, 0, 0>>}

InitJudge ==
    /\ fn = "calculate_judge_rate"
    /\ args \in JudgeInputs
    /\ ret = <<>>
    /\ ClientAtRest

\* extract_info, "4. Calculation": calculate_judge_rate(ph, p, great, good, miss),
\* then calculate_score(ph, p, great) and is_perfect_decode
CallCalculateJudgeRate ==
    /\ fn = "calculate_judge_rate"
    /\ ret = <<>>
    /\ IF calculate_judge_rate_raises(args[1], args[2], args[3], args[4], args[5])
       THEN ret' = <<Raised("ZeroDivisionError")>>
       ELSE LET calculated_judge_rate ==
                    calculate_judge_rate(args[1], args[2], args[3], args[4], args[5])
            IN  ret' = <<[outcome |-> "returned",
                          judge |-> calculated_judge_rate,
                          score |-> calculate_score(args[1], args[2], args[3]),
                          is_perfect_decode |->
                              calculated_judge_rate = 100 * JudgeScale]>>
    /\ UNCHANGED <<fn, args>>
    /\ UNCHANGED <<client, threads>>

NextJudge == CallCalculateJudgeRate
SpecJudge == InitJudge /\ [][NextJudge]_vars

\* longest text the OCR engine returns for the line-count box
MaxText == 6

\* the texts over the whitelist "46", as sequences of digits; <<>> is ""
OcrLineTexts == UNION {[1..n -> {4, 6}] : n \in 0..MaxText}

\* int(text) for a non-empty text of decimal digits
RECURSIVE int_of(_)
int_of(text) ==
    IF Len(text) = 1 THEN text[1]
    ELSE 10 * int_of(SubSeq(text, 1, Len(text) - 1)) + text[Len(text)]

\* get_ocr_line on the stripped text: int(text), 6 on ValueError
get_ocr_line(text) ==
    IF text = <<>> THEN 6 ELSE int_of(text)

InitLine ==
    /\ fn = "get_ocr_line"
    /\ args \in OcrLineTexts
    /\ ret = <<>>
    /\ ClientAtRest

CallGetOcrLine ==
    /\ fn = "get_ocr_line"
    /\ ret = <<>>
    /\ ret' = <<get_ocr_line(args)>>
    /\ UNCHANGED <<fn, args>>
    /\ UNCHANGED <<client, threads>>

NextLine == CallGetOcrLine
SpecLine == InitLine /\ [][NextLine]_vars

---------------------------------------------------------------------------
(* Region extraction (src/analyzer.py): where an analysis samples the      *)
(* screenshot.  A sample records the reference coordinates it is taken for *)
(* (in the 1920x1080 frame) and the coordinates handed to crop / getpixel. *)
(* A box is (x0, y0, x1, y1), a point (x, y).                              *)

\* REF_W, REF_H = 1920, 1080
REF_W == 1920
REF_H == 1080

ROI_CONFIG ==
    [SELECT |->
        [jacket |-> <<760, 66, 1160, 466>>,
         major_judge |-> <<979, 846, 1015, 865>>,
         minor_judge |-> <<1019, 848, 1059, 865>>,
         line |-> <<143, 32, 361, 78>>,
         major_patch |-> <<891, 741, 1026, 786>>,
         minor_patch |-> <<1032, 752, 1078, 786>>,
         score |-> <<961, 803, 1078, 826>>,
         full_combo |-> <<1109, 867, 1320, 900>>,
         max_patch |-> <<1033, 726>>,
         rank |-> <<1151, 684, 1280, 812>>],
     RESULT |->
        [jacket |-> <<122, 193, 522, 593>>,
         judge |-> <<959, 301, 1283, 367>>,
         line |-> <<37, 32, 75, 81>>,
         level |-> <<395, 700, 502, 762>>,
         patch |-> <<979, 186, 1320, 251>>,
         score |-> <<953, 418, 1316, 483>>,
         rank |-> <<1020, 575, 1345, 890>>,
         notes_area |-> <<874, 0, 950, 0>>,
         total_notes |-> <<589, 614>>,
         perfect_high_y |-> <<650, 675>>,
         perfect_y |-> <<686, 713>>,
         great_y |-> <<725, 751>>,
         good_y |-> <<764, 788>>,
         miss_y |-> <<800, 828>>,
         difficulty_color |-> <<300, 730>>]]

\* _ratio followed by _scale_coordinate: int(round(width * (x / REF_W))),
\* int(round(height * (y / REF_H)))
scale_coordinate(x, y, size) ==
    <<RoundHalfEven(size[1] * x, REF_W), RoundHalfEven(size[2] * y, REF_H)>>

\* _get_abs_coords
get_abs_coords(coords, size) ==
    LET abs1 == scale_coordinate(coords[1], coords[2], size)
        abs2 == scale_coordinate(coords[3], coords[4], size)
    IN  <<abs1[1], abs1[2], abs2[1], abs2[2]>>

Sampled(what, ref, at) == [what |-> what, ref |-> ref, at |-> at]

\* determine_screen_type: screenshot.crop((30, 908) + (119, 932))
select_speed_crop(size) ==
    Sampled("select_speed", <<30, 908, 119, 932>>, <<30, 908, 119, 932>>)

\* the config keys whose entry is a pair of y coordinates under notes_area
NotesKeys ==
    {"perfect_high_y", "perfect_y", "great_y", "good_y", "miss_y", "total_notes"}

\* _crop_and_ocr: the box img.crop is called with
crop_and_ocr(size, screen_type, config_key) ==
    LET ref_coords == ROI_CONFIG[screen_type][config_key]
        notes_x == ROI_CONFIG[screen_type].notes_area
        box == IF config_key \in NotesKeys
               THEN <<notes_x[1], ref_coords[1], notes_x[3], ref_coords[2]>>
               ELSE ref_coords
    IN  Sampled(config_key, box, get_abs_coords(box, size))

\* extract_info, "3. Difficulty Color Check": img.getpixel(_scale_coordinate(...))
difficulty_color_pixel(size) ==
    LET ref == ROI_CONFIG.RESULT.difficulty_color
    IN  Sampled("difficulty_color", ref, scale_coordinate(ref[1], ref[2], size))

\* _analyze_select_screen: the pixel of the pivot scan at row pivot_y
pivot_pixel(pivot_y, size) ==
    LET abs_coords == get_abs_coords(<<843, pivot_y, 843, pivot_y>>, size)
    IN  Sampled("pivot", <<843, pivot_y>>, <<abs_coords[1], abs_coords[2]>>)

\* _analyze_select_screen: the level box under the pivot found at row pivot_y
level_crop(pivot_y, size) ==
    LET box == <<843 - 105, pivot_y + 29, 843, pivot_y + 95>>
    IN  Sampled("level", box, get_abs_coords(box, size))

\* _analyze_select_screen: img.getpixel(ROI_CONFIG[screen_type]["max_patch"])
max_patch_pixel(size) ==
    Sampled("max_patch", ROI_CONFIG.SELECT.max_patch, ROI_CONFIG.SELECT.max_patch)

\* the pivot scan: rows 627, 628, ... up to the first row with a pivot colour
\* (pivot_row) or to 1039, then the level box if a pivot was found
pivot_scan(pivot_row, size) ==
    LET last_y == IF pivot_row = None THEN 1039 ELSE pivot_row[1]
    IN  [i \in 1..(last_y - 626) |-> pivot_pixel(626 + i, size)]
            \o (IF pivot_row = None THEN <<>> ELSE <<level_crop(last_y, size)>>)

\* the samples of extract_info on a result screen, in the order taken
result_screen_samples(size) ==
    <<select_speed_crop(size)>>
        \o [i \in 1..12 |->
               crop_and_ocr(size, "RESULT",
                   <<"jacket", "line", "level", "patch", "score", "total_notes",
                     "perfect_high_y", "perfect_y", "great_y", "good_y", "miss_y",
                     "rank">>[i])]
        \o <<difficulty_color_pixel(size)>>

\* the samples of extract_info / _analyze_select_screen on a select screen
select_screen_samples(size, pivot_row) ==
    <<select_speed_crop(size)>>
        \o [i \in 1..7 |->
               crop_and_ocr(size, "SELECT",
                   <<"jacket", "line", "score", "major_patch", "minor_patch",
                     "major_judge", "minor_judge">>[i])]
        \o pivot_scan(pivot_row, size)
        \o <<crop_and_ocr(size, "SELECT", "full_combo"), max_patch_pixel(size),
             crop_and_ocr(size, "SELECT", "rank")>>

\* screenshot sizes: the reference size, 720p, 1440p, 2160p, 1366x768 and
\* 640x360 (on these the float products of _scale_coordinate round as the
\* exact ones do)
ScreenSizes ==
    {<<1920, 1080>>, <<1280, 720>>, <<2560, 1440>>, <<3840, 2160>>,
     <<1366, 768>>, <<640, 360>>}

\* the first row of column 843 that has a pivot colour, if any
PivotRows == {None, Some(627), Some(700), Some(1039)}

InitRegions ==
    /\ fn = "extract_info"
    /\ args \in [size : ScreenSizes, screen_type : {"RESULT"}, pivot_row : {None}]
                  \cup [size : ScreenSizes, screen_type : {"SELECT"},
                        pivot_row : PivotRows]
    /\ ret = <<>>
    /\ ClientAtRest

\* extract_info on a result screen takes its next sample
SampleResultScreen ==
    /\ fn = "extract_info"
    /\ args.screen_type = "RESULT"
    /\ Len(ret) < Len(result_screen_samples(args.size))
    /\ ret' = Append(ret, result_screen_samples(args.size)[Len(ret) + 1])
    /\ UNCHANGED <<fn, args>>
    /\ UNCHANGED <<client, threads>>

\* extract_info / _analyze_select_screen on a select screen takes its next sample
SampleSelectScreen ==
    /\ fn = "extract_info"
    /\ args.screen_type = "SELECT"
    /\ Len(ret) < Len(select_screen_samples(args.size, args.pivot_row))
    /\ ret' = Append(ret, select_screen_samples(args.size, args.pivot_row)[Len(ret) + 1])
    /\ UNCHANGED <<fn, args>>
    /\ UNCHANGED <<client, threads>>

NextRegions == SampleResultScreen \/ SampleSelectScreen
SpecRegions == InitRegions /\ [][NextRegions]_vars

---------------------------------------------------------------------------
(* Song matcher: properties of get_best_match_song *)

\* the jacket hashes song i of a catalog carries
HashesOfSong(song) ==
    (IF song.phash # None THEN {song.phash[1]} ELSE {})
        \cup (IF song.plus_phash # None THEN {song.plus_phash[1]} ELSE {})

CatalogHashSet(song_database) ==
    UNION {HashesOfSong(song_database[i]) : i \in 1..Len(song_database)}

SetMin(S) == CHOOSE x \in S : \A y \in S : x <= y
SetMax(S) == CHOOSE x \in S : \A y \in S : x >= y

\* the least distance from the target to a jacket hash of the catalog
MinCatalogDistance(song_database, target_hash) ==
    SetMin({Hamming(target_hash, h) : h \in CatalogHashSet(song_database)})

\* the songs (by position) with a jacket hash at the least distance
NearestSongs(song_database, target_hash) ==
    {i \in 1..Len(song_database) :
        \E h \in HashesOfSong(song_database[i]) :
            Hamming(target_hash, h) = MinCatalogDistance(song_database, target_hash)}

\* where a hash first occurs in catalog order: song by song, normal before plus
FirstOccurrence(song_database, h) ==
    SetMin({2 * i + (IF song_database[i].phash = Some(h) THEN 0 ELSE 1) :
                i \in {j \in 1..Len(song_database) : h \in HashesOfSong(song_database[j])}})

\* the nearest hash that occurs first in catalog order
DecidingHash(song_database, target_hash) ==
    LET near == {h \in CatalogHashSet(song_database) :
                    Hamming(target_hash, h) = MinCatalogDistance(song_database, target_hash)}
    IN  CHOOSE h \in near :
            \A g \in near : FirstOccurrence(song_database, h) <= FirstOccurrence(song_database, g)

MatchReturned == fn = "get_best_match_song" /\ ret # <<>>

\* C6 as stated: for every non-empty catalog the result is a catalog entry with
\* a jacket hash at the minimum Hamming distance, with that distance, and among
\* several entries at the minimum it is the first in catalog order.  (Stated for
\* the catalogs that hold at least one jacket hash, the reading kindest to it.)
C6_FirstInCatalogOrder ==
    (MatchReturned /\ CatalogHashSet(args.song_database) # {}) =>
        /\ ret[1][1] # None
        /\ ret[1][2] = MinCatalogDistance(args.song_database, args.target_hash)
        /\ ret[1][1][1] =
             args.song_database[SetMin(NearestSongs(args.song_database, args.target_hash))]

\* C6 amended: with at least one jacket hash in the catalog the result is the
\* minimum Hamming distance over all jacket hashes and a catalog entry carrying a
\* hash at that distance; among distinct hashes at the minimum the one occurring
\* first in catalog order (normal before plus) decides, and of the songs carrying
\* that hash the last in catalog order is returned.  Without any jacket hash the
\* result is (None, inf).
C6_FirstHashLastSong ==
    MatchReturned =>
        IF CatalogHashSet(args.song_database) = {}
        THEN ret[1] = <<None, Inf>>
        ELSE LET h == DecidingHash(args.song_database, args.target_hash)
             IN  /\ ret[1][1] # None
                 /\ ret[1][2] = MinCatalogDistance(args.song_database, args.target_hash)
                 /\ ret[1][2] = Hamming(args.target_hash, h)
                 /\ h \in HashesOfSong(ret[1][1][1])
                 /\ ret[1][1][1] =
                      args.song_database[SetMax({i \in 1..Len(args.song_database) :
                          h \in HashesOfSong(args.song_database[i])})]

\* two songs, two distinct hashes both one bit from the target: the first wins;
\* at the same time a hash shared by both songs is in the catalog
C6_Witness ==
    /\ MatchReturned
    /\ Len(args.song_database) = 2
    /\ args.target_hash = {1}
    /\ args.song_database[1].phash = Some({})
    /\ args.song_database[1].plus_phash = Some(1..HashBits)
    /\ args.song_database[2].phash = Some({1, 2})
    /\ args.song_database[2].plus_phash = Some(1..HashBits)
    /\ ret[1] = <<Some(args.song_database[1]), 1>>

---------------------------------------------------------------------------
(* Scoring engine: properties of calculate_rank, calculate_patch and
   verify_notes_count *)

RankReturned == fn = "calculate_rank" /\ ret # <<>>

\* the rank the ladder gives an accuracy that is exactly a threshold
RankAtThreshold(t) ==
    CASE t = 998000 -> "SS+" [] t = 995000 -> "SS"  [] t = 990000 -> "S+"
      [] t = 980000 -> "S"   [] t = 970000 -> "AA+" [] t = 950000 -> "AA"
      [] t = 900000 -> "A+"  [] t = 800000 -> "A"   [] t = 700000 -> "B"

\* C7: calculate_rank never decreases as the accuracy increases, in the order
\* C < B < A < A+ < AA < AA+ < S < S+ < SS < SS+; an accuracy equal to a threshold
\* gets the higher rank, and every accuracy below 70 gets C.
C7_RankMonotoneAndThresholds ==
    RankReturned =>
        /\ ret[1] \in Ranks /\ ret[2] \in Ranks
        /\ (args[1] <= args[2] => RankIndex(ret[1]) <= RankIndex(ret[2]))
        /\ (args[1] \in RankThresholds => ret[1] = RankAtThreshold(args[1]))
        /\ (args[1] < 700000 => ret[1] = "C")

\* 99.7999 is SS and 99.8 is SS+
C7_Witness ==
    /\ RankReturned
    /\ args = <<997999, 998000>>
    /\ ret = <<"SS", "SS+">>

PatchReturned == fn = "calculate_patch" /\ ret # <<>>

\* C8: calculate_patch returns exactly 0.0 for rank F, whatever the level, the
\* accuracy and is_plus.
C8_RankFGivesZeroPatch ==
    (PatchReturned /\ args.rank = "F") => ret[1] = 0

\* rank F at level 15, PLUS, accuracy 100
C8_Witness ==
    /\ PatchReturned
    /\ args = [level |-> 15, rank |-> "F", is_plus |-> TRUE, judge |-> 1000000]
    /\ ret = <<0>>

NotesReturned == fn = "verify_notes_count" /\ Len(ret) >= 1

NotesTotal  == args[1]
NotesCounts == <<args[2], args[3], args[4], args[5], args[6]>>

\* C9: counts that already sum to the total come back unchanged, and the repair
\* applied to its own output (same total) returns that output.
C9_RepairIdempotent ==
    /\ (NotesReturned /\ SumSeq(NotesCounts) = NotesTotal) => ret[1] = NotesCounts
    /\ (fn = "verify_notes_count" /\ Len(ret) = 2) => ret[2] = ret[1]

\* total 2, counts (1,1,1,1,0): the miss tier was repaired to -2 and the second
\* application left (1,1,1,1,-2) alone
C9_Witness ==
    /\ fn = "verify_notes_count"
    /\ args = <<2, 1, 1, 1, 1, 0>>
    /\ ret = <<<<1, 1, 1, 1, 0 - 2>>, <<1, 1, 1, 1, 0 - 2>>>>

\* the tier the repair recomputes: the first of the four upper tiers above the
\* total, else the miss tier
RepairedTier ==
    IF \E i \in 1..4 : NotesCounts[i] > NotesTotal
    THEN SetMin({i \in 1..4 : NotesCounts[i] > NotesTotal})
    ELSE 5

\* C10: when the counts do not sum to the total exactly one tier changes: the
\* first of top-tier-high, top-tier, mid-tier, low-tier above the total, else the
\* miss tier; it becomes the total minus the other four, which stay as they were.
C10_RepairsFirstTierAboveTotal ==
    (NotesReturned /\ SumSeq(NotesCounts) # NotesTotal) =>
        /\ ret[1][RepairedTier] = NotesTotal - (SumSeq(NotesCounts) - NotesCounts[RepairedTier])
        /\ ret[1][RepairedTier] # NotesCounts[RepairedTier]
        /\ \A j \in 1..5 : j # RepairedTier => ret[1][j] = NotesCounts[j]

\* total 1, counts (0,2,3,0,1): top-tier (2) is the first above the total and
\* becomes 1 - (0+3+0+1) = -3, although mid-tier is above the total as well
C10_Witness ==
    /\ NotesReturned
    /\ args = <<1, 0, 2, 3, 0, 1>>
    /\ ret[1] = <<0, 0 - 3, 3, 0, 1>>

---------------------------------------------------------------------------
(* Archive reconciler: properties of update_display and
   log_higher_score_and_report *)

\* a step of update_display that got as far as the comparison
Reconciling == pc = "display" /\ archive # None

KeyOf(r) == <<r.song.id, r.line, r.difficulty, r.level>>

StoredKeys(a) == {a[1][i][1] : i \in 1..Len(a[1])}
StoredAt(a, k) == DictGet(a[1], k)

\* accuracy, score and full-combo flag of the record the report is compared
\* with: the stored one, else accuracy 0, score 0, no full combo
PriorOf(r) ==
    IF KeyOf(r) \in StoredKeys(archive)
    THEN [judge |-> StoredAt(archive, KeyOf(r)).judge,
          score |-> StoredAt(archive, KeyOf(r)).score,
          is_full_combo |-> StoredAt(archive, KeyOf(r)).is_full_combo]
    ELSE [judge |-> 0, score |-> 0, is_full_combo |-> FALSE]

\* the three criteria, in their order
Wins(r, prior) ==
    \/ r.judge > prior.judge
    \/ r.judge = prior.judge /\ r.score > prior.score
    \/ r.judge = prior.judge /\ r.score = prior.score
         /\ r.is_full_combo /\ ~prior.is_full_combo

ClassifiedWin(l) == l # None /\ l[1].outcome \in {"updated", "post_raised"}
ClassifiedNoWin(l) == l # None /\ l[1].outcome = "not_updated"

\* the flat record of a report that a sync request carries
SyncRecordOf(r) ==
    [song_id |-> r.song.id, line |-> r.line, difficulty |-> r.difficulty,
     level |-> r.level, judge |-> r.judge, score |-> r.score, patch |-> r.patch,
     is_full_combo |-> r.is_full_combo, is_max_patch |-> r.is_maximum_patch]

\* the record stored under the key of r carries r's accuracy, score, rating,
\* full-combo and max-rating flags
StoresReport(a, r) ==
    /\ a # None
    /\ KeyOf(r) \in StoredKeys(a)
    /\ LET rec == StoredAt(a, KeyOf(r))
       IN  /\ rec.judge = r.judge
           /\ rec.score = r.score
           /\ rec.patch = r.patch
           /\ rec.is_full_combo = r.is_full_combo
           /\ rec.is_max_patch = r.is_maximum_patch

\* C1: update_display classifies a report as a win over the stored (or
\* placeholder) record of its key exactly when its accuracy is higher, or the
\* accuracies are equal and its score is higher, or accuracy and score are equal
\* and it is a full combo while the record is not; in every other case it is
\* classified as no win.
C1_WinIffLexicographicallyBetter ==
    [][Reconciling =>
          /\ ClassifiedWin(last') \/ ClassifiedNoWin(last')
          /\ ClassifiedWin(last') <=> Wins(report[1], PriorOf(report[1]))]_vars

\* the stored record is (98.0, 900000, no full combo) and the report
\* (98.0, 900000, full combo) was classified as a win
C1_Witness ==
    /\ ClassifiedWin(last)
    /\ last[1].existing[1].judge = 980000 /\ last[1].report[1].judge = 980000
    /\ last[1].existing[1].score = 900000 /\ last[1].report[1].score = 900000
    /\ ~last[1].existing[1].is_full_combo /\ last[1].report[1].is_full_combo

C3_NoWinLeavesStoreAndSync ==
    [][(Reconciling /\ ~Wins(report[1], PriorOf(report[1]))) =>
          /\ archive' = archive
          /\ sent' = sent]_vars

\* a report equal to the stored record in accuracy, score and full-combo flag
\* was not a win, and nothing was sent
C3_Witness ==
    /\ ClassifiedNoWin(last)
    /\ last[1].existing[1].judge = last[1].report[1].judge
    /\ last[1].existing[1].score = last[1].report[1].score
    /\ last[1].existing[1].is_full_combo = last[1].report[1].is_full_combo
    /\ KeyOf(last[1].report[1]) \in StoredKeys(archive)
    /\ sent = <<>>

\* C4: a report whose key has no stored record is compared with a placeholder of
\* accuracy 0, score 0, rating 0 and no full combo; a key gets its first record
\* only through a win of a report of that key over the placeholder, and a report
\* with accuracy 0, score 0 and no full combo leaves its key without a record.
C4_PlaceholderAndFirstRecord ==
    [][/\ (Reconciling /\ KeyOf(report[1]) \notin StoredKeys(archive)) =>
             /\ last'[1].existing[1].judge = 0
             /\ last'[1].existing[1].score = 0
             /\ last'[1].existing[1].patch = 0
             /\ ~last'[1].existing[1].is_full_combo
             /\ (report[1].judge = 0 /\ report[1].score = 0
                   /\ ~report[1].is_full_combo) =>
                      KeyOf(report[1]) \notin StoredKeys(archive')
       /\ (archive # None /\ archive' # None) =>
             \A k \in StoredKeys(archive') \ StoredKeys(archive) :
                 /\ pc = "display"
                 /\ k = KeyOf(report[1])
                 /\ Wins(report[1], [judge |-> 0, score |-> 0, is_full_combo |-> FALSE])
      ]_vars

\* with an empty store a report of accuracy 0, score 0 without full combo came
\* and went, and the store is still empty
C4_Witness ==
    /\ ClassifiedNoWin(last)
    /\ last[1].report[1].judge = 0 /\ last[1].report[1].score = 0
    /\ ~last[1].report[1].is_full_combo
    /\ last[1].existing[1].judge = 0 /\ ~last[1].existing[1].is_full_combo
    /\ archive = Some(<<>>)

---------------------------------------------------------------------------
(* Song-match acceptance *)

\* the songs of the catalog in use
SongsInUse == [i \in 1..Len(song_db) |-> song_db[i][2]]

\* the distance from the jacket under analysis to the nearest jacket hash of the
\* catalog in use; inf when the catalog has none
JacketDistance ==
    IF CatalogHashSet(SongsInUse) = {} THEN Inf
    ELSE MinCatalogDistance(SongsInUse, img[1].jacket_hash)

\* the step that matches the jacket
Matching == pc = "match" /\ pc' # "match"

---------------------------------------------------------------------------
(* Analysis pipeline: properties of extract_info and
   _analyze_select_screen *)

\* the exceptions an analysis can end with
ExceptionNames ==
    {"TypeError", "ZeroDivisionError", "UnboundLocalError", "IndexError",
     "AttributeError", "ArchiveException"}

\* extract_info is entered and no image can be obtained
NoImageStep == pc = "idle" /\ runs' = runs + 1 /\ img' = None

\* C11: when no image can be obtained (no file at the path, no image on the
\* clipboard), extract_info returns a distinguished empty result to its caller
\* and raises no exception.
C11_NoImageReturnsEmpty ==
    [][NoImageStep => last' # None /\ last'[1].outcome \notin ExceptionNames]_vars

\* the step in which the fields of a matched result screen / select screen are
\* recognised and the analysis returns or raises
RecognizingResult == pc = "recognize" /\ img[1].screen = "RESULT" /\ pc' # pc
RecognizingSelect == pc = "recognize" /\ img[1].screen = "SELECT" /\ pc' # pc

\* C12: on the result screen, once the song is matched, extract_info returns an
\* AnalysisReport for every combination of recognised fields, the note total
\* and the five tallies all read as 0 included; no recognition outcome makes it
\* raise.
C12_ResultScreenAlwaysReturns ==
    [][RecognizingResult => report' # None /\ pc' = "display"]_vars

\* C13: on the select screen, once the song is matched, _analyze_select_screen
\* returns an AnalysisReport with a defined difficulty and level for every
\* image, whether or not the pivot scan of rows 627..1039 found a pivot pixel.
C13_SelectScreenAlwaysReturns ==
    [][RecognizingSelect =>
          /\ report' # None
          /\ report'[1].difficulty \in Difficulties
          /\ report'[1].level \in Nat
          /\ pc' = "display"]_vars
\* the formula-derived rating of a result screen: calculate_patch on the level,
\* rank, difficulty and accuracy the analysis has in hand
FormulaRatingOf(im, r) ==
    calculate_patch(im.level_ocr, r.rank, r.difficulty = "PLUS", r.judge)

\* the result screen returned a report
ResultReturned == RecognizingResult /\ report' # None

\* C14: on the result screen the reported rating is the OCR'd rating when the
\* OCR'd and the formula-derived rating differ by at most 0.1 in either
\* direction or the accuracy is exactly 100, and the formula-derived rating in
\* every other case.
C14_RatingCrossCheck ==
    [][ResultReturned =>
          LET r == report'[1]
              formula == FormulaRatingOf(img[1], r)
          IN  IF \/ Abs(img[1].patch_ocr - formula) * 10 <= PatchScale
                 \/ r.judge = 100 * JudgeScale
              THEN r.patch = img[1].patch_ocr
              ELSE r.patch = formula]_vars

\* the analysis kept the OCR'd rating
OcrPreferred(im, r) ==
    \/ r.judge = 100 * JudgeScale
    \/ patch_within_tenth(im, FormulaRatingOf(im, r))

\* C15: on the result screen, a reported rating that is the formula-derived one
\* (OCR not preferred), the rank not being F, equals
\* round(L * 42 * accuracy/100 * ratio(rank) * (1.02 if PLUS else 1), 2) for the
\* level L, accuracy, rank and difficulty reported in the same report; level 15
\* at accuracy 100, rank SS+, not PLUS gives 630.0.
C15_FormulaRatingUsesReportedLevel ==
    [][(ResultReturned /\ ~OcrPreferred(img[1], report'[1])
          /\ report'[1].rank # "F") =>
          /\ report'[1].patch =
                patch_formula(report'[1].level, report'[1].rank,
                              report'[1].difficulty = "PLUS", report'[1].judge)
          /\ calculate_patch(15, "SS+", FALSE, 100 * JudgeScale) = 630 * PatchScale]_vars

\* C17: in every report, of either screen, the full-combo flag is set whenever
\* the accuracy equals 100; on the result screen for every OCR'd total and
\* tallies after the note-count repair.
C17_PerfectImpliesFullCombo ==
    report # None =>
        (report[1].judge = 100 * JudgeScale => report[1].is_full_combo)

\* C18: every report of the result screen has an accuracy between 0 and 100
\* inclusive and a non-negative score, for every OCR'd total and non-negative
\* OCR'd tallies fed through the note-count repair.
C18_AccuracyAndScoreInRange ==
    [][ResultReturned =>
          /\ report'[1].judge >= 0
          /\ report'[1].judge <= 100 * JudgeScale
          /\ report'[1].score >= 0]_vars

---------------------------------------------------------------------------
(* Scoring engine: properties of calculate_judge_rate and calculate_score *)

JudgeReturned == fn = "calculate_judge_rate" /\ ret # <<>> /\ ret[1].outcome = "returned"

\* the weighted judge points and the number of notes of the tallies,
\* (top-tier-high, top-tier, mid, low, miss)
WeightedPoints(t) == (t[1] + t[2]) * 100 + t[3] * 70 + t[4] * 30
NotesOf(t) == t[1] + t[2] + t[3] + t[4] + t[5]

\* j, in units of 0.0001, is n / d rounded to 4 decimal places: no other
\* multiple of 0.0001 is nearer to n / d, and of two equally near ones j is the
\* even one
IsRoundedTo4(j, n, d) ==
    /\ 2 * Abs(j * d - n * JudgeScale) <= d
    /\ 2 * Abs(j * d - n * JudgeScale) = d => j % 2 = 0

\* C16: for five tallies with a positive sum calculate_judge_rate returns
\* ((top-tier-high + top-tier) * 100 + mid * 70 + low * 30) divided by the sum
\* of the five, rounded to 4 decimal places, and calculate_score returns
\* 200 * top-tier-high + 150 * top-tier + 100 * mid; the tallies (100,0,0,0,0)
\* give accuracy 100.0000, score 20000 and perfect.
C16_JudgeRateAndScore ==
    (JudgeReturned /\ NotesOf(args) > 0) =>
        /\ IsRoundedTo4(ret[1].judge, WeightedPoints(args), NotesOf(args))
        /\ ret[1].score = 200 * args[1] + 150 * args[2] + 100 * args[3]
        /\ args = <<100, 0, 0, 0, 0>> =>
              /\ ret[1].judge = 1000000
              /\ ret[1].score = 20000
              /\ ret[1].is_perfect_decode

\* two top-tier-high notes and a miss: 200 / 3 is rounded up to 66.6667
C16_Witness ==
    /\ JudgeReturned
    /\ args = <<2, 0, 0, 0, 1>>
    /\ ret[1].judge = 666667
    /\ ret[1].score = 400

---------------------------------------------------------------------------
(* Level resolution: properties of extract_info and _analyze_select_screen *)

\* the levels the patterns of a song list for a line count and a difficulty,
\* one per listing pattern
ListedLevels(song, line, difficulty) ==
    {i \in 1..Len(song.patterns) :
        song.patterns[i].line = line /\ song.patterns[i].difficulty = difficulty}

\* C19: whenever the patterns of the matched song list exactly one level for
\* the recognised line count and difficulty, the report carries that level,
\* whatever OCR or the hash fallback read; on the result screen and on the
\* select screen (a report of the select screen has its pivot found).
C19_SingleCatalogLevelOverrides ==
    report # None =>
        LET r == report[1]
            listed == ListedLevels(r.song, r.line, r.difficulty)
        IN  Cardinality(listed) = 1 =>
                \A i \in listed : r.level = r.song.patterns[i].level

\* a result screen of song 1, 4L EASY, on which OCR read level 6 (the rating
\* 25.20 is the formula's at level 6): the report carries the catalog's level 5
C19_Witness ==
    /\ report # None
    /\ report[1].song.id = 1 /\ report[1].line = 4 /\ report[1].difficulty = "EASY"
    /\ report[1].total_notes = 2
    /\ report[1].patch = 2520
    /\ report[1].level = 5

---------------------------------------------------------------------------
(* Region extraction: resolution invariance *)

\* at is the nearest integer to extent * ref / ref_extent
AxisScaled(at, ref, extent, ref_extent) ==
    2 * Abs(at * ref_extent - extent * ref) <= ref_extent

\* every coordinate of the sample is its reference coordinate scaled, x by the
\* width and y by the height
SampleScaled(s, size) ==
    /\ Len(s.at) = Len(s.ref)
    /\ \A k \in 1..Len(s.ref) :
          IF k % 2 = 1 THEN AxisScaled(s.at[k], s.ref[k], size[1], REF_W)
          ELSE AxisScaled(s.at[k], s.ref[k], size[2], REF_H)

\* C20: for a screenshot of size (W, H) every box and point an analysis
\* samples (the screen-classifier region, the ROI boxes, the difficulty point
\* of the result screen, the pivot scan, level box and max-rating point of the
\* select screen) lies at round(W * ref_x / 1920), round(H * ref_y / 1080) of
\* its reference coordinates, so that at 1920x1080 it lies at the reference
\* coordinates themselves.
C20_SamplesAreScaled ==
    fn = "extract_info" =>
        \A i \in 1..Len(ret) :
            /\ SampleScaled(ret[i], args.size)
            /\ args.size = <<REF_W, REF_H>> => ret[i].at = ret[i].ref

---------------------------------------------------------------------------
(* Line count: properties of get_ocr_line *)

\* C21: the recognised line count is always 4 or 6: for every text the OCR
\* engine returns under the whitelist "46" (the empty text and texts of several
\* characters included) get_ocr_line returns 4 or 6, and it returns 6 when the
\* text does not parse as an integer.
C21_LineIsFourOrSix ==
    (fn = "get_ocr_line" /\ ret # <<>>) =>
        /\ ret[1] \in {4, 6}
        /\ args = <<>> => ret[1] = 6

---------------------------------------------------------------------------
(* Note-count repair: sum and range of the counts verify_notes_count returns *)

\* C27: for every total and every five non-negative OCR'd counts the five
\* counts verify_notes_count returns sum exactly to the total.
C27_RepairedCountsSumToTotal ==
    NotesReturned => SumSeq(ret[1]) = NotesTotal

\* total 3, counts (1,0,0,0,0): the miss tier was set to 2
C27_Witness ==
    /\ NotesReturned
    /\ args = <<3, 1, 0, 0, 0, 0>>
    /\ ret[1] = <<1, 0, 0, 0, 2>>

\* C28: for every non-negative total and every five non-negative OCR'd counts
\* each of the five counts verify_notes_count returns is non-negative and does
\* not exceed the total.
C28_RepairedCountsInRange ==
    NotesReturned =>
        \A i \in 1..5 : ret[1][i] >= 0 /\ ret[1][i] <= NotesTotal

---------------------------------------------------------------------------
(* Archive reconciler: the store over sequences of reconciliations *)

\* new is old or better than old in the comparison order: higher accuracy, or
\* the same accuracy and a higher score, or the same accuracy and score and a
\* full-combo flag that did not go from true to false
NotWorse(old, new) ==
    \/ new.judge > old.judge
    \/ new.judge = old.judge /\ new.score > old.score
    \/ new.judge = old.judge /\ new.score = old.score
         /\ (old.is_full_combo => new.is_full_combo)

\* C25: for every key and every sequence of reconciliations the stored record
\* never gets worse in the comparison order (its accuracy never decreases, its
\* score never decreases at the same accuracy, its full-combo flag never goes
\* from true to false at the same accuracy and score), and a key that has a
\* record keeps having one.
C25_StoredRecordNeverWorse ==
    [][archive # None =>
          /\ archive' # None
          /\ \A k \in StoredKeys(archive) :
                /\ k \in StoredKeys(archive')
                /\ NotWorse(StoredAt(archive, k), StoredAt(archive', k))]_vars

\* the stored record (98.0, 900000) was overwritten by a report at 98.5 with
\* the lower score 0
C25_Witness ==
    /\ last # None /\ last[1].outcome = "updated"
    /\ last[1].existing[1].judge = 980000 /\ last[1].existing[1].score = 900000
    /\ last[1].report[1].judge = 985000 /\ last[1].report[1].score = 0
    /\ StoredAt(archive, KeyOf(last[1].report[1])).judge = 985000

\* the report in hand is the one the reconciliation just before was given, and
\* that reconciliation ended with one of the listed outcomes
SameAsLast(outcomes) ==
    /\ Reconciling
    /\ last # None
    /\ last[1].outcome \in outcomes
    /\ last[1].report = report

\* a win leaves the records of all other keys as they were
OtherKeysUnchanged ==
    (Reconciling /\ Wins(report[1], PriorOf(report[1]))) =>
        \A k \in StoredKeys(archive) \ {KeyOf(report[1])} :
            k \in StoredKeys(archive') /\ StoredAt(archive', k) = StoredAt(archive, k)

RecordKey(rec) == <<rec.song_id, rec.line, rec.difficulty, rec.level>>

\* the record either came with fetch_archive or carries the accuracy, score,
\* rating and flags of a sync request issued for its key
FetchedOrSynced(rec) ==
    \/ rec = StoredRecord
    \/ \E i \in 1..Len(sent) :
          /\ RecordKey(rec) = RecordKey(sent[i])
          /\ rec.judge = sent[i].judge
          /\ rec.score = sent[i].score
          /\ rec.patch = sent[i].patch
          /\ rec.is_full_combo = sent[i].is_full_combo
          /\ rec.is_max_patch = sent[i].is_max_patch

NoUnsyncedRecord ==
    archive # None => \A k \in StoredKeys(archive) : FetchedOrSynced(StoredAt(archive, k))

\* C29: on a win the sync request is issued before the stored record is
\* overwritten: the store changes only in a step that issued the request for
\* the report, and when the sync call raises the store is left unchanged; hence
\* the store never holds a winning record for which no sync request was issued.
C29_SyncBeforeStore ==
    [][/\ (archive # None /\ archive' # archive) =>
             /\ Reconciling
             /\ sent' = Append(sent, SyncRecordOf(report[1]))
             /\ last'[1].outcome = "updated"
       /\ (Reconciling /\ last'[1].outcome = "post_raised") => archive' = archive
       /\ NoUnsyncedRecord']_vars

\* the sync call of a win over a missing record raised: the request was issued
\* and the key still has no record
C29_Witness ==
    /\ last # None /\ last[1].outcome = "post_raised"
    /\ Len(sent) = 1
    /\ sent[1] = SyncRecordOf(last[1].report[1])
    /\ archive = Some(<<>>)

---------------------------------------------------------------------------
(* Threads: analyses in flight, the writer of the store, catalog reloads,
   start-up *)

\* the threads inside extract_info
InFlight == {t \in Threads : flows[t].pc \in {"match", "recognize"}}

\* C22: at most one analysis is in flight at any time: whatever the sequence of
\* hotkey and button triggers, no two threads are inside extract_info together.
C22_AtMostOneAnalysisInFlight ==
    Cardinality(InFlight) <= 1

\* the threads inside update_display / log_higher_score_and_report
Reconcilers == {t \in Threads : flows[t].pc \in {"display", "post"}}

\* C23: the store has a single writer: only the main thread is ever inside a
\* reconciliation (worker threads hand their report over with app.after), the
\* store changes only in the step in which the main thread's
\* log_higher_score_and_report returns, and while one reconciliation is under
\* way no other is begun, whatever the worker threads do meanwhile.
C23_SingleWriter ==
    [][/\ Reconcilers' \subseteq {MainThread}
       /\ (archive # None /\ archive' # archive) =>
             /\ flows[MainThread].pc = "post"
             /\ flows'[MainThread].pc = "mainloop"
       /\ flows[MainThread].pc \in {"display", "post"} =>
             /\ \A i \in 1..Len(after) : after'[i] = after[i]
             /\ flows'[MainThread].pc \in {"display", "post"} =>
                   flows'[MainThread].report = flows[MainThread].report]_vars

\* the main thread waits for requests.post with the report of the first worker
\* thread while the report of the second is scheduled and waits its turn
C23_Witness ==
    /\ flows[MainThread].pc = "post"
    /\ Len(after) = 1
    /\ flows[1].pc = "ended" /\ flows[2].pc = "ended"
    /\ after[1] # flows[MainThread].report

\* the songs of an analyzer
SongsOf(a) == {a.song_db[i][2] : i \in 1..Len(a.song_db)}

\* C24: a reload binds a new analyzer and leaves the previous one as it was: an
\* analysis starts with the analyzer current at its start, keeps that one
\* analyzer until it ends whatever is reloaded meanwhile, and the song it
\* matches and the song of the report it hands over (with the levels looked up
\* there) are songs of that analyzer's catalog.
C24_OneCatalogSnapshotPerAnalysis ==
    [][\A t \in Threads :
          /\ (flows[t].pc = "triggered" /\ flows'[t].pc = "match") =>
                flows'[t].analyzer = analyzer
          /\ (flows[t].pc \in {"match", "recognize"}
                /\ flows'[t].pc \in {"match", "recognize"}) =>
                flows'[t].analyzer = flows[t].analyzer
          /\ flows'[t].matched # None =>
                flows'[t].matched[1][1][1] \in SongsOf(flows'[t].analyzer[1])
          /\ (flows[t].pc = "recognize" /\ flows'[t].pc = "display") =>
                flows'[t].report[1].song \in SongsOf(flows[t].analyzer[1])
          /\ (flows[t].pc = "recognize" /\ flows'[t].pc = "ended"
                /\ Len(after') = Len(after) + 1) =>
                after'[Len(after')][1].song \in SongsOf(flows[t].analyzer[1])]_vars

\* an analysis matched its song in the catalog it started with while
\* self.analyzer is bound to a reloaded catalog that has no such entry
C24_Witness ==
    \E t \in Workers :
        /\ flows[t].pc = "recognize"
        /\ analyzer # None
        /\ flows[t].analyzer # analyzer
        /\ flows[t].matched[1][1][1] \in SongsOf(flows[t].analyzer[1])
        /\ flows[t].matched[1][1][1] \notin SongsOf(analyzer[1])

\* C30: no analysis runs before its collaborators exist: in every interleaving
\* of start-up with hotkeys, when a thread reads self.analyzer to start
\* extract_info the analyzer has been constructed, and when update_display
\* starts the archive has been loaded.
C30_CollaboratorsExist ==
    [][\A t \in Threads :
          /\ (flows[t].pc = "triggered" /\ flows'[t] # flows[t]) => analyzer # None
          /\ (flows[t].pc = "display" /\ flows'[t] # flows[t]) => archive # None]_vars

=============================================================================
